---- MODULE Spec2Model ----
(***************************************************************************)
(* Model of the dnsname CNI plugin's multi-domain server propagation:      *)
(* the forwarder-line files of every network directory under the shared    *)
(* root, the dnsmasq daemon of every network, the lock over the shared     *)
(* root and the cmdAdd / cmdDel / cmdCheck invocations that run as         *)
(* separate processes.                                                     *)
(*                                                                         *)
(* Strings that the code formats, parses or sorts are sequences of byte    *)
(* values, so that fmt.Sprintf, strings.Split and sort.Strings are         *)
(* computed as the code computes them.  Network (directory) names are TLA+ *)
(* strings listed in NetNames in the order ioutil.ReadDir returns them.    *)
(***************************************************************************)
EXTENDS Integers, Sequences, FiniteSets, TLC

(***************************************************************************)
(* Bounds of the model.                                                    *)
(***************************************************************************)
\* the number of plugin invocations (Add, Del, Check) a behaviour starts
MaxOps == 3
\* the number of times a dnsmasq daemon exits on its own in a behaviour
MaxCrash == 1

(***************************************************************************)
(* Byte strings.                                                           *)
(***************************************************************************)
\* '/' : the separator of a scoped line, server=/<domain>/<ip>
Slash == 47

\* "server="
ServerPrefix == <<115, 101, 114, 118, 101, 114, 61>>

\* the network directories, in ReadDir (file name) order
NetNames == <<"net1", "net2", "net3">>

Nets == {NetNames[i] : i \in 1..Len(NetNames)}

\* domain names: "x", "y", "z"
DomX == <<120>>

DomY == <<121>>

DomZ == <<122>>

\* interface addresses: "1", "2"
Ip1 == <<49>>

Ip2 == <<50>>

\* a remote (upstream) server: "9"
Ip9 == <<57>>

NetCfg(dom, ips, md, remote) ==
    [dom |-> dom, ips |-> ips, md |-> md, remote |-> remote]

\* the configurations of net1, net2, net3 a behaviour runs under
Configs == {
    \* domains of their own
    <<NetCfg(DomX, <<Ip1>>, TRUE, <<>>), NetCfg(DomY, <<Ip2>>, TRUE, <<>>),
      NetCfg(DomZ, <<Ip1>>, TRUE, <<>>)>>,
    \* net2 has remote servers
    <<NetCfg(DomX, <<Ip1>>, TRUE, <<>>), NetCfg(DomY, <<Ip2>>, TRUE, <<Ip9>>),
      NetCfg(DomZ, <<Ip1>>, TRUE, <<>>)>>,
    \* net1 and net3 claim the same domain, with different addresses
    <<NetCfg(DomX, <<Ip1>>, TRUE, <<>>), NetCfg(DomY, <<Ip2>>, TRUE, <<>>),
      NetCfg(DomX, <<Ip2>>, TRUE, <<>>)>>,
    \* net2 and net3 claim the same domain, with the same address
    <<NetCfg(DomX, <<Ip1>>, TRUE, <<>>), NetCfg(DomY, <<Ip2>>, TRUE, <<>>),
      NetCfg(DomY, <<Ip2>>, TRUE, <<>>)>>,
    \* net2 is not multi-domain
    <<NetCfg(DomX, <<Ip1>>, TRUE, <<>>), NetCfg(DomY, <<Ip2>>, FALSE, <<>>),
      NetCfg(DomZ, <<Ip1>>, TRUE, <<>>)>>
}

\* the concurrent plugin processes
Procs == {1, 2}

NoProc == 0

RECURSIVE StrLess(_, _)
\* s < t as Go compares strings: bytewise, a proper prefix first
StrLess(s, t) ==
    IF s = <<>> THEN t # <<>>
    ELSE IF t = <<>> THEN FALSE
    ELSE IF Head(s) # Head(t) THEN Head(s) < Head(t)
    ELSE StrLess(Tail(s), Tail(t))

RECURSIVE InsertSorted(_, _)
InsertSorted(x, sorted) ==
    IF sorted = <<>> THEN <<x>>
    ELSE IF StrLess(x, Head(sorted)) THEN <<x>> \o sorted
    ELSE <<Head(sorted)>> \o InsertSorted(x, Tail(sorted))

RECURSIVE SortStrings(_)
\* sort.Strings
SortStrings(items) ==
    IF items = <<>> THEN <<>>
    ELSE InsertSorted(Head(items), SortStrings(Tail(items)))

RECURSIVE Split(_, _)
\* strings.Split(s, sep) for a one-byte separator
Split(s, sep) ==
    IF \A i \in 1..Len(s) : s[i] # sep THEN <<s>>
    ELSE LET i == CHOOSE k \in 1..Len(s) :
                      s[k] = sep /\ \A j \in 1..(k - 1) : s[j] # sep
         IN  <<SubSeq(s, 1, i - 1)>> \o Split(SubSeq(s, i + 1, Len(s)), sep)

\* fmt.Sprintf("server=/%s/%s", domainName, server)
ScopedItem(domainName, server) ==
    ServerPrefix \o <<Slash>> \o domainName \o <<Slash>> \o server

\* fmt.Sprintf("server=%s", server)
RemoteItem(server) == ServerPrefix \o server

serversToServerItems(domainName, servers) ==
    [i \in 1..Len(servers) |-> ScopedItem(domainName, servers[i])]

remoteServersToServerItems(remoteServer) ==
    [i \in 1..Len(remoteServer) |-> RemoteItem(remoteServer[i])]

Range(s) == {s[i] : i \in 1..Len(s)}

\* a plausible slip: the domain is looked for in the address field
isDomainInListWrongField(domainName, serverItems) ==
    \E i \in 1..Len(serverItems) :
        LET fields == Split(serverItems[i], Slash)
        IN  Len(fields) >= 3 /\ domainName = fields[3]

isDomainInList(domainName, serverItems) ==
    \E i \in 1..Len(serverItems) :
        LET fields == Split(serverItems[i], Slash)
        IN  Len(fields) >= 3 /\ domainName = fields[2]

\* a plausible slip: every new line is appended, present or not
mergeServerItemsNoLookup(curServers, newServers) ==
    [items |-> curServers \o newServers, modified |-> newServers # <<>>]

\* a plausible slip: the new lines are looked up but never appended
mergeServerItemsDropNew(curServers, newServers) ==
    [items |-> curServers, modified |-> FALSE]

RECURSIVE mergeServerItems(_, _)
\* the merged slice and whether a line was appended
mergeServerItems(curServers, newServers) ==
    IF newServers = <<>> THEN [items |-> curServers, modified |-> FALSE]
    ELSE LET found == Head(newServers) \in Range(curServers)
             rest  == mergeServerItems(
                          IF found THEN curServers
                          ELSE Append(curServers, Head(newServers)),
                          Tail(newServers))
         IN  [items |-> rest.items, modified |-> rest.modified \/ ~found]

\* a plausible slip: the loop goes on after a match and deletes every copy
RemoveEveryCopy(curServers, removeServer) ==
    SelectSeq(curServers, LAMBDA l : l # removeServer)

\* a plausible slip: append(curServers[:i], curServers[i:]...) deletes nothing
RemoveFirstOffByOne(curServers, removeServer) == curServers

\* curServers without its first occurrence of removeServer
RemoveFirst(curServers, removeServer) ==
    IF removeServer \notin Range(curServers) THEN curServers
    ELSE LET i == CHOOSE k \in 1..Len(curServers) :
                      curServers[k] = removeServer
                      /\ \A j \in 1..(k - 1) : curServers[j] # removeServer
         IN  SubSeq(curServers, 1, i - 1)
                 \o SubSeq(curServers, i + 1, Len(curServers))

RECURSIVE removeServerItems(_, _)
removeServerItems(curServers, removeServers) ==
    IF removeServers = <<>> THEN [items |-> curServers, modified |-> FALSE]
    ELSE LET found == Head(removeServers) \in Range(curServers)
             rest  == removeServerItems(
                          RemoveFirst(curServers, Head(removeServers)),
                          Tail(removeServers))
         IN  [items |-> rest.items, modified |-> rest.modified \/ found]

RECURSIVE GoCapFrom(_, _)
GoCapFrom(c, n) == IF c >= n THEN c ELSE GoCapFrom(2 * c, n)

\* the capacity of the slice readServerItems builds by appending n lines to
\* make([]string, 0): append doubles a full backing array
GoCap(n) == IF n = 0 THEN 0 ELSE GoCapFrom(1, n)

(***************************************************************************)
(* The state.                                                              *)
(***************************************************************************)
VARIABLES
    dirs,     \* the network directories that exist under the shared root
    own,      \* own[n]: the own-servers file of network n
    local,    \* local[n]: the local-servers file of network n
    hosts,    \* hosts[n]: the hosts file of network n (the pods it names)
    conf,     \* conf[n]: whether the dnsmasq config file of n exists
    daemon,   \* daemon[n]: "nopid" (no pid file), "running" (pid file of a
              \* live dnsmasq), "dead" (pid file of a process that exited)
              \* or "bad" (pid file that holds no decimal pid)
    lock,     \* the process holding the lock over the shared root, or NoProc
    st,       \* st[p]: the invocation process p runs, and where it is
    log,      \* log[p]: what p's invocation did to the shared root so far
    pre,      \* pre[p]: the files as they were when p entered addLocalServers
    nops,     \* invocations started
    ncrash,   \* daemons that exited on their own
    allOk,    \* every Add and Del that returned so far returned success
    cfg,      \* cfg[n]: the configuration the caller passes for network n,
              \* and the addresses of its interface
    call,     \* a function of the package called on its own, as the package's
              \* tests call it: its arguments and what it returned
    died      \* the networks for which an Add process died in addLocalServers

vars == <<dirs, own, local, hosts, conf, daemon, lock, st, log, pre, nops,
          ncrash, allOk, cfg, call, died>>

\* an absent file, and a file holding lines
NoFile == [ex |-> FALSE, lines |-> <<>>]

FileOf(lines) == [ex |-> TRUE, lines |-> lines]

NoHosts == [ex |-> FALSE, pods |-> {}]

\* the directory entries of the shared root other than curDir, in name order
RECURSIVE ListFrom(_, _, _)
ListFrom(i, present, curDir) ==
    IF i > Len(NetNames) THEN <<>>
    ELSE (IF NetNames[i] \in present /\ NetNames[i] # curDir
          THEN <<NetNames[i]>> ELSE <<>>)
         \o ListFrom(i + 1, present, curDir)

Siblings(present, curDir) == ListFrom(1, present, curDir)

\* the line feed fmt.Fprintln ends a line with
Newline == 10

\* the carriage return bufio.ScanLines drops from the end of a line
CarriageReturn == 13

RECURSIVE FileBytesNoNewline(_)
\* a plausible slip: fmt.Fprint, which does not end the line
FileBytesNoNewline(servers) ==
    IF servers = <<>> THEN <<>>
    ELSE Head(servers) \o FileBytesNoNewline(Tail(servers))

RECURSIVE FileBytes(_)
\* the bytes the loop of fmt.Fprintln calls writes: each entry and a line feed
FileBytes(servers) ==
    IF servers = <<>> THEN <<>>
    ELSE Head(servers) \o <<Newline>> \o FileBytes(Tail(servers))

DropCR(line) ==
    IF line # <<>> /\ line[Len(line)] = CarriageReturn
    THEN SubSeq(line, 1, Len(line) - 1) ELSE line

RECURSIVE ScanLines(_)
\* the tokens of a bufio.Scanner over the bytes: the lines without their
\* line ends, the last one also when no line feed ends it
ScanLines(bytes) ==
    IF bytes = <<>> THEN <<>>
    ELSE IF \A i \in 1..Len(bytes) : bytes[i] # Newline
    THEN <<DropCR(bytes)>>
    ELSE LET i == CHOOSE k \in 1..Len(bytes) :
                      bytes[k] = Newline
                      /\ \A j \in 1..(k - 1) : bytes[j] # Newline
         IN  <<DropCR(SubSeq(bytes, 1, i - 1))>>
                 \o ScanLines(SubSeq(bytes, i + 1, Len(bytes)))

\* readServerItems: os.Open fails on an absent file; otherwise the lines
\* the scanner finds in the file
readServerItems(file) == [notExist |-> ~file.ex, items |-> file.lines]

\* writeServerItems: the slice is sorted in place, then the file is created
\* or truncated and each entry written as a line; os.OpenFile fails when
\* the directory does not exist. A file is kept as the lines a scanner
\* finds in its bytes.
writeServerItems(dirExists, servers) ==
    LET bytes == FileBytes(SortStrings(servers))
    IN  [err   |-> ~dirExists,
         bytes |-> bytes,
         file  |-> FileOf(ScanLines(bytes))]

\* a plausible slip: the pid file is looked for, the process is not probed
isRunningByPidFile(n) == daemon[n] # "nopid"

\* dnsNameFile.isRunning
isRunning(n) == daemon[n] = "running"

\* dnsNameFile.stop: no pid file and a process that is gone are no error;
\* Kill leaves the pid file of the killed process behind
stop(state) == IF state = "running" THEN "dead" ELSE state

\* a plausible slip: the error of getProcess is dropped
stopNeverFails(state) == FALSE

\* a plausible slip: every error of getProcess and of pid.Kill() is returned,
\* the missing pid file and the process already finished too
stopFailsUnlessRunning(state) == state # "running"

\* dnsNameFile.stop returns the error of getProcess when the pid file holds
\* no decimal pid
stopFails(state) == state = "bad"

\* dnsNameFile.stop gets as far as pid.Kill(): the pid file holds a pid
stopKills(state) == state \in {"running", "dead"}

\* dnsNameFile.start: dnsmasq runs, writes its pid file and goes to the
\* background, or exits non-zero (startOk = FALSE, or no config file)
start(state, startOk) == IF startOk THEN "running" ELSE state

(***************************************************************************)
(* The propagation engine, one sibling at a time.                          *)
(***************************************************************************)
\* a plausible slip: only the sibling's local-servers lines are returned
InstanceServersLocalOnly(curServerItems, ownServerItems) == curServerItems

\* what addServersToInstance returns: the instance's local servers + own
\* servers
InstanceServers(curServerItems, ownServerItems) ==
    curServerItems \o ownServerItems

\* addServersToInstance on the current files: the error ("" for none), the
\* sibling's local-servers file and daemon afterwards, the slice returned,
\* and what was done to the shared root.  The merged slice shares the
\* backing array of curServerItems when the appended lines fit its
\* capacity, so the sort of writeServerItems then reorders curServerItems
\* too, and the returned slice starts with the first lines of the sorted
\* array.
addServersToInstance(networkName, domainName, serverItems, startOk) ==
    LET ownServerItems == readServerItems(own[networkName]).items
        curServerItems == readServerItems(local[networkName]).items
        m       == mergeServerItems(curServerItems, serverItems)
        w       == writeServerItems(networkName \in dirs, m.items)
        n       == Len(curServerItems)
        inPlace == Len(m.items) <= GoCap(n)
        curAfter == IF inPlace THEN SubSeq(w.file.lines, 1, n)
                    ELSE curServerItems
        running == isRunning(networkName)
        same    == [err |-> "", local |-> local[networkName],
                    daemon |-> daemon[networkName], ret |-> <<>>,
                    events |-> <<>>]
    IN  IF isDomainInList(domainName, ownServerItems)
        THEN [same EXCEPT !.err = "collision",
                          !.events = <<<<"read_own", networkName>>>>]
        ELSE IF ~m.modified
        THEN [same EXCEPT !.ret = InstanceServers(curServerItems,
                                                 ownServerItems),
                          !.events = <<<<"read_own", networkName>>,
                                       <<"read_local", networkName>>>>]
        ELSE IF w.err
        THEN [same EXCEPT !.err = "io",
                          !.events = <<<<"read_own", networkName>>,
                                       <<"read_local", networkName>>>>]
        ELSE [err    |-> IF running /\ ~startOk THEN "start" ELSE "",
              local  |-> w.file,
              daemon |-> IF running
                         THEN start(stop(daemon[networkName]), startOk)
                         ELSE daemon[networkName],
              ret    |-> IF running /\ ~startOk THEN <<>>
                         ELSE InstanceServers(curAfter, ownServerItems),
              events |-> <<<<"read_own", networkName>>,
                           <<"read_local", networkName>>,
                           <<"write_local", networkName>>,
                           <<"probe", networkName>>>>
                         \o (IF running
                             THEN <<<<"stop", networkName>>,
                                    <<"start", networkName>>>>
                             ELSE <<>>)]

\* a plausible slip: the daemon is restarted whether or not it was running
removeServersFromInstanceRestartAlways(networkName, serverItems, startOk) ==
    LET r       == readServerItems(local[networkName])
        m       == removeServerItems(r.items, serverItems)
        w       == writeServerItems(networkName \in dirs, m.items)
        same    == [err |-> "", local |-> local[networkName],
                    daemon |-> daemon[networkName],
                    events |-> <<<<"read_local", networkName>>>>]
    IN  IF r.notExist THEN [same EXCEPT !.err = "notexist"]
        ELSE IF ~m.modified THEN same
        ELSE IF w.err THEN [same EXCEPT !.err = "io"]
        ELSE [err    |-> IF ~startOk THEN "start" ELSE "",
              local  |-> w.file,
              daemon |-> start(stop(daemon[networkName]), startOk),
              events |-> <<<<"read_local", networkName>>,
                           <<"write_local", networkName>>,
                           <<"probe", networkName>>,
                           <<"stop", networkName>>,
                           <<"start", networkName>>>>]

\* removeServersFromInstance on the current files: an absent local-servers
\* file is an error here
removeServersFromInstance(networkName, serverItems, startOk) ==
    LET r       == readServerItems(local[networkName])
        m       == removeServerItems(r.items, serverItems)
        w       == writeServerItems(networkName \in dirs, m.items)
        running == isRunning(networkName)
        same    == [err |-> "", local |-> local[networkName],
                    daemon |-> daemon[networkName],
                    events |-> <<<<"read_local", networkName>>>>]
    IN  IF r.notExist THEN [same EXCEPT !.err = "notexist"]
        ELSE IF ~m.modified THEN same
        ELSE IF w.err THEN [same EXCEPT !.err = "io"]
        ELSE [err    |-> IF running /\ ~startOk THEN "start" ELSE "",
              local  |-> w.file,
              daemon |-> IF running
                         THEN start(stop(daemon[networkName]), startOk)
                         ELSE daemon[networkName],
              events |-> <<<<"read_local", networkName>>,
                           <<"write_local", networkName>>,
                           <<"probe", networkName>>>>
                         \o (IF running
                             THEN <<<<"stop", networkName>>,
                                    <<"start", networkName>>>>
                             ELSE <<>>)]

\* a plausible slip: the file is written whether or not a line was added
addRemoteServersAlwaysWrite(multiDomain, dirExists, file, remoteServers) ==
    LET cur == readServerItems(IF multiDomain THEN file ELSE NoFile).items
        m   == mergeServerItems(cur, remoteServersToServerItems(remoteServers))
        w   == writeServerItems(multiDomain /\ dirExists, m.items)
    IN  IF w.err THEN [err |-> "io", file |-> file, wrote |-> FALSE]
        ELSE [err |-> "", file |-> w.file, wrote |-> TRUE]

\* addRemoteServers on a local-servers file; fileConfig is "" (no such
\* file, in no directory) when the network is not multi-domain
addRemoteServers(multiDomain, dirExists, file, remoteServers) ==
    LET cur == readServerItems(IF multiDomain THEN file ELSE NoFile).items
        m   == mergeServerItems(cur, remoteServersToServerItems(remoteServers))
        w   == writeServerItems(multiDomain /\ dirExists, m.items)
    IN  IF ~m.modified THEN [err |-> "", file |-> file, wrote |-> FALSE]
        ELSE IF w.err THEN [err |-> "io", file |-> file, wrote |-> FALSE]
        ELSE [err |-> "", file |-> w.file, wrote |-> TRUE]

(***************************************************************************)
(* The invocations.                                                        *)
(***************************************************************************)
Idle == [pc |-> "idle", op |-> "none", net |-> "net1", dom |-> <<>>,
         ips |-> <<>>, md |-> FALSE, remote |-> <<>>, err |-> "",
         cerr |-> "", items |-> <<>>, cur |-> <<>>, sitems |-> <<>>,
         alOk |-> FALSE]

\* no function has been called on its own
NoCall == [fn |-> "none"]

NoSnap == [taken |-> FALSE, dirs |-> {}, own |-> [n \in Nets |-> NoFile],
           local |-> [n \in Nets |-> NoFile]]

\* what p does to the shared root, with whether p holds the lock and
\* whether the daemon of the network was running when the step began
Logged(p, events) ==
    [i \in 1..Len(events) |->
        [op |-> events[i][1], net |-> events[i][2], locked |-> lock = p,
         running |-> isRunning(events[i][2])]]

Init ==
    /\ dirs = {}
    /\ own = [n \in Nets |-> NoFile]
    /\ local = [n \in Nets |-> NoFile]
    /\ hosts = [n \in Nets |-> NoHosts]
    /\ conf = [n \in Nets |-> FALSE]
    /\ daemon = [n \in Nets |-> "nopid"]
    /\ lock = NoProc
    /\ st = [p \in Procs |-> Idle]
    /\ log = [p \in Procs |-> <<>>]
    /\ pre = [p \in Procs |-> NoSnap]
    /\ nops = 0
    /\ ncrash = 0
    /\ allOk = TRUE
    /\ call = NoCall
    /\ died = {}
    /\ \E c \in Configs : cfg = [n \in Nets |-> c[CHOOSE i \in 1..Len(NetNames) : NetNames[i] = n]]

\* the pod (container) name an invocation of process p carries
PodOf(p) == p

\* a plausible slip: the failure path returns after cleanUp without
\* releasing the lock
ReleaseLockOnSuccessOnly(p) == IF st[p].err # "" THEN p ELSE NoProc

\* the lock after the deferred function of p's invocation ran:
\* lock.release() is called on every path
ReleaseLock(p) == NoProc

\* cmdAdd up to getLock: the binary is found, the configuration parses and
\* names a previous result; os.Stat(domainBaseDir) and os.MkdirAll run
\* before the lock is taken.  The remote servers are read from the
\* configuration of each invocation: the caller passes those of the network
\* or none
StartAdd(p) ==
    /\ st[p].pc = "idle"
    /\ nops < MaxOps
    /\ \E net \in Nets : \E remote \in {<<>>, cfg[net].remote} :
          /\ st' = [st EXCEPT ![p] =
                      [Idle EXCEPT !.pc = "a_lock", !.op = "add", !.net = net,
                                   !.dom = cfg[net].dom, !.ips = cfg[net].ips,
                                   !.md = cfg[net].md,
                                   !.remote = remote]]
          /\ dirs' = dirs \cup {net}
          /\ log' = [log EXCEPT ![p] = Logged(p,
                        <<<<"stat", net>>>>
                        \o (IF net \in dirs THEN <<>>
                            ELSE <<<<"mkdir", net>>>>))]
    /\ nops' = nops + 1
    /\ UNCHANGED <<own, local, hosts, conf, daemon, lock, pre, ncrash,
                   allOk, cfg, call, died>>

\* lock.acquire returns only when no other process holds the lock
LockIsFree(holder) == holder = NoProc

\* a plausible slip: the body is entered without waiting for the lock
AcquireLockNoWait(p) ==
    /\ st[p].pc \in {"a_lock", "d_lock", "k_lock"}
    /\ lock' = p
    /\ log' = [log EXCEPT ![p] = Append(@, [op |-> "acquire",
                                            net |-> st[p].net,
                                            locked |-> TRUE,
                                            running |-> isRunning(st[p].net)])]
    /\ st' = [st EXCEPT ![p].pc = CASE st[p].pc = "a_lock" -> "a_prep"
                                    [] st[p].pc = "d_lock" -> "c_hosts"
                                    [] OTHER -> "k_check"]
    /\ UNCHANGED <<dirs, own, local, hosts, conf, daemon, pre, nops, ncrash,
                   allOk, cfg, call, died>>

\* getLock and lock.acquire of cmdAdd, cmdDel and cmdCheck: waits for the
\* lock to be free
AcquireLock(p) ==
    /\ st[p].pc \in {"a_lock", "d_lock", "k_lock"}
    /\ LockIsFree(lock)
    /\ lock' = p
    /\ log' = [log EXCEPT ![p] = Append(@, [op |-> "acquire",
                                            net |-> st[p].net,
                                            locked |-> TRUE,
                                            running |-> isRunning(st[p].net)])]
    /\ st' = [st EXCEPT ![p].pc = CASE st[p].pc = "a_lock" -> "a_prep"
                                    [] st[p].pc = "d_lock" -> "c_hosts"
                                    [] OTHER -> "k_check"]
    /\ UNCHANGED <<dirs, own, local, hosts, conf, daemon, pre, nops, ncrash,
                   allOk, cfg, call, died>>

\* cmdAdd from checkForDNSMasqConfFile to getInterfaceAddresses: the config
\* file is created, the pod is appended to the hosts file, the remote
\* servers are merged into the local-servers file
AddPrep(p) ==
    LET n  == st[p].net
        ok == n \in dirs
        r  == addRemoteServers(st[p].md, ok, local[n], st[p].remote)
        doRemote == ok /\ Len(st[p].remote) > 0
        err == IF ~ok THEN "io" ELSE IF doRemote THEN r.err ELSE ""
    IN  /\ st[p].pc = "a_prep"
        /\ conf' = IF ok THEN [conf EXCEPT ![n] = TRUE] ELSE conf
        /\ hosts' = IF ok
                    THEN [hosts EXCEPT ![n] =
                             [ex |-> TRUE, pods |-> @.pods \cup {PodOf(p)}]]
                    ELSE hosts
        /\ local' = IF doRemote THEN [local EXCEPT ![n] = r.file] ELSE local
        /\ log' = [log EXCEPT ![p] = @ \o Logged(p,
                      <<<<"write_conf", n>>>>
                      \o (IF ok THEN <<<<"write_hosts", n>>>> ELSE <<>>)
                      \o (IF doRemote THEN <<<<"read_local", n>>>> ELSE <<>>)
                      \o (IF doRemote /\ r.wrote
                          THEN <<<<"write_local", n>>>> ELSE <<>>))]
        /\ st' = [st EXCEPT ![p].err = err,
                            ![p].pc = IF err = "" THEN "a_addlocal"
                                      ELSE "c_hosts"]
        /\ UNCHANGED <<dirs, own, daemon, lock, pre, nops, ncrash, allOk, cfg, call, died>>

\* a plausible slip: addLocalServers is passed over whether or not the
\* daemon is running
AddSkipLocalAlways(p) ==
    /\ st[p].pc = "a_addlocal"
    /\ log' = [log EXCEPT ![p] = @ \o
                  (IF st[p].md THEN Logged(p, <<<<"probe", st[p].net>>>>)
                   ELSE <<>>)]
    /\ st' = [st EXCEPT ![p].pc = "a_hup"]
    /\ UNCHANGED <<dirs, own, local, hosts, conf, daemon, lock, pre, nops,
                   ncrash, allOk, cfg, call, died>>

\* cmdAdd: the network is not multi-domain or its daemon is running, so
\* addLocalServers is not called
AddSkipLocal(p) ==
    /\ st[p].pc = "a_addlocal"
    /\ ~(st[p].md /\ ~isRunning(st[p].net))
    /\ log' = [log EXCEPT ![p] = @ \o
                  (IF st[p].md THEN Logged(p, <<<<"probe", st[p].net>>>>)
                   ELSE <<>>)]
    /\ st' = [st EXCEPT ![p].pc = "a_hup"]
    /\ UNCHANGED <<dirs, own, local, hosts, conf, daemon, lock, pre, nops,
                   ncrash, allOk, cfg, call, died>>

\* addLocalServers up to ioutil.ReadDir: the own-servers file is written,
\* the local-servers file read and the siblings listed
AddLocalBegin(p) ==
    LET n == st[p].net
        serverItems == serversToServerItems(st[p].dom, st[p].ips)
        w == writeServerItems(n \in dirs, serverItems)
    IN  /\ st[p].pc = "a_addlocal"
        /\ st[p].md /\ ~isRunning(n)
        /\ pre' = [pre EXCEPT ![p] = [taken |-> TRUE, dirs |-> dirs,
                                      own |-> own, local |-> local]]
        /\ own' = IF w.err THEN own ELSE [own EXCEPT ![n] = w.file]
        /\ log' = [log EXCEPT ![p] = @ \o Logged(p,
                      <<<<"probe", n>>, <<"write_own", n>>>>
                      \o (IF w.err THEN <<>>
                          ELSE <<<<"read_local", n>>, <<"readdir", n>>>>))]
        /\ st' = [st EXCEPT ![p] =
                     IF w.err
                     THEN [@ EXCEPT !.err = "io", !.pc = "c_hosts"]
                     ELSE [@ EXCEPT !.pc = "al_loop",
                                    !.sitems = w.file.lines,
                                    !.cur = readServerItems(local[n]).items,
                                    !.items = Siblings(dirs, n)]]
        /\ UNCHANGED <<dirs, local, hosts, conf, daemon, lock, nops, ncrash,
                       allOk, cfg, call, died>>

\* addLocalServers: one sibling of the loop
AddLocalSibling(p) ==
    /\ st[p].pc = "al_loop"
    /\ st[p].items # <<>>
    /\ \E startOk \in BOOLEAN :
         LET s == Head(st[p].items)
             r == addServersToInstance(s, st[p].dom, st[p].sitems, startOk)
         IN  /\ local' = [local EXCEPT ![s] = r.local]
             /\ daemon' = [daemon EXCEPT ![s] = r.daemon]
             /\ log' = [log EXCEPT ![p] = @ \o Logged(p, r.events)]
             /\ st' = [st EXCEPT ![p] =
                          IF r.err # ""
                          THEN [@ EXCEPT !.err = r.err, !.pc = "c_hosts"]
                          ELSE [@ EXCEPT
                                  !.items = Tail(@),
                                  !.cur = mergeServerItems(@, r.ret).items]]
    /\ UNCHANGED <<dirs, own, hosts, conf, lock, pre, nops, ncrash, allOk, cfg, call, died>>

\* addLocalServers after the loop: the instance's own lines are removed from
\* the accumulated lines, which are written as its local-servers file
AddLocalFinal(p) ==
    LET n == st[p].net
        w == writeServerItems(n \in dirs,
                 removeServerItems(st[p].cur, st[p].sitems).items)
    IN  /\ st[p].pc = "al_loop"
        /\ st[p].items = <<>>
        /\ local' = IF w.err THEN local ELSE [local EXCEPT ![n] = w.file]
        /\ log' = [log EXCEPT ![p] = @ \o Logged(p, <<<<"write_local", n>>>>)]
        /\ st' = [st EXCEPT ![p] =
                     IF w.err
                     THEN [@ EXCEPT !.err = "io", !.pc = "c_hosts"]
                     ELSE [@ EXCEPT !.alOk = TRUE, !.pc = "a_hup"]]
        /\ UNCHANGED <<dirs, own, hosts, conf, daemon, lock, pre, nops,
                       ncrash, allOk, cfg, call, died>>

\* dnsNameFile.hup on network n by p: a running daemon is sent SIGHUP, one
\* that is not running is started
Hup(p, n, startOk) ==
    [err    |-> IF isRunning(n) \/ (startOk /\ conf[n]) THEN "" ELSE "start",
     daemon |-> IF isRunning(n) THEN daemon[n]
                ELSE start(daemon[n], startOk /\ conf[n]),
     events |-> <<<<"probe", n>>,
                  IF isRunning(n) THEN <<"sighup", n>> ELSE <<"start", n>>>>]

\* cmdAdd: dnsNameConf.hup(), then the result is printed
AddHup(p) ==
    /\ st[p].pc = "a_hup"
    /\ \E startOk \in BOOLEAN :
         LET h == Hup(p, st[p].net, startOk)
         IN  /\ daemon' = [daemon EXCEPT ![st[p].net] = h.daemon]
             /\ log' = [log EXCEPT ![p] = @ \o Logged(p, h.events)]
             /\ st' = [st EXCEPT ![p].err = h.err,
                                 ![p].pc = IF h.err = "" THEN "release"
                                           ELSE "c_hosts"]
    /\ UNCHANGED <<dirs, own, local, hosts, conf, lock, pre, nops, ncrash,
                   allOk, cfg, call, died>>

\* cmdDel up to getLock: the binary is found, the configuration parses and
\* names a previous result
StartDel(p) ==
    /\ st[p].pc = "idle"
    /\ nops < MaxOps
    /\ \E net \in Nets :
          st' = [st EXCEPT ![p] =
                    [Idle EXCEPT !.pc = "d_lock", !.op = "del", !.net = net,
                                 !.dom = cfg[net].dom, !.ips = cfg[net].ips,
                                 !.md = cfg[net].md]]
    /\ nops' = nops + 1
    /\ log' = [log EXCEPT ![p] = <<>>]
    /\ UNCHANGED <<dirs, own, local, hosts, conf, daemon, lock, pre, ncrash,
                   allOk, cfg, call, died>>

\* cleanUp up to the test of hostsFileModified: the packet-filter chain is
\* deleted and the pod removed from the hosts file, which fails when there
\* is no hosts file; hostsFileModified says that other pods remain
CleanHosts(p) ==
    LET n    == st[p].net
        left == hosts[n].pods \ {PodOf(p)}
    IN  /\ st[p].pc = "c_hosts"
        /\ hosts' = IF hosts[n].ex
                    THEN [hosts EXCEPT ![n].pods = left] ELSE hosts
        /\ log' = [log EXCEPT ![p] = @ \o Logged(p,
                      <<<<"cleanup", n>>, <<"write_hosts", n>>>>)]
        /\ st' = [st EXCEPT ![p] =
                     IF ~hosts[n].ex
                     THEN [@ EXCEPT !.cerr = "io", !.pc = "release"]
                     ELSE IF left # {} THEN [@ EXCEPT !.pc = "c_hup"]
                     ELSE [@ EXCEPT !.pc = "c_rmlocal"]]
        /\ UNCHANGED <<dirs, own, local, conf, daemon, lock, pre, nops,
                       ncrash, allOk, cfg, call, died>>

\* cleanUp, no pod left: getInterfaceAddresses, and removeLocalServers up to
\* ioutil.ReadDir when the network is multi-domain
CleanRemoveBegin(p) ==
    LET n == st[p].net
    IN  /\ st[p].pc = "c_rmlocal"
        /\ log' = [log EXCEPT ![p] = @ \o
                      (IF st[p].md THEN Logged(p, <<<<"readdir", n>>>>)
                       ELSE <<>>)]
        /\ st' = [st EXCEPT ![p] =
                     [@ EXCEPT !.pc = "c_loop",
                               !.sitems = serversToServerItems(st[p].dom,
                                                               st[p].ips),
                               !.items = IF st[p].md THEN Siblings(dirs, n)
                                         ELSE <<>>]]
        /\ UNCHANGED <<dirs, own, local, hosts, conf, daemon, lock, pre,
                       nops, ncrash, allOk, cfg, call, died>>

\* removeLocalServers: one sibling of the loop
CleanRemoveSibling(p) ==
    /\ st[p].pc = "c_loop"
    /\ st[p].items # <<>>
    /\ \E startOk \in BOOLEAN :
         LET s == Head(st[p].items)
             r == removeServersFromInstance(s, st[p].sitems, startOk)
         IN  /\ local' = [local EXCEPT ![s] = r.local]
             /\ daemon' = [daemon EXCEPT ![s] = r.daemon]
             /\ log' = [log EXCEPT ![p] = @ \o Logged(p, r.events)]
             /\ st' = [st EXCEPT ![p] =
                          IF r.err # ""
                          THEN [@ EXCEPT !.cerr = r.err, !.pc = "release"]
                          ELSE [@ EXCEPT !.items = Tail(@)]]
    /\ UNCHANGED <<dirs, own, hosts, conf, lock, pre, nops, ncrash, allOk, cfg, call, died>>

\* cleanUp, no pod left, after removeLocalServers: the daemon is stopped and
\* the instance directory removed with all its files
CleanStop(p) ==
    LET n == st[p].net
    IN  /\ st[p].pc = "c_loop"
        /\ st[p].items = <<>>
        /\ IF stopFails(daemon[n])
           THEN /\ log' = [log EXCEPT ![p] = @ \o Logged(p, <<<<"stop", n>>>>)]
                /\ st' = [st EXCEPT ![p].cerr = "stop", ![p].pc = "release"]
                /\ UNCHANGED <<dirs, own, local, hosts, conf, daemon>>
           ELSE /\ dirs' = dirs \ {n}
                /\ own' = [own EXCEPT ![n] = NoFile]
                /\ local' = [local EXCEPT ![n] = NoFile]
                /\ hosts' = [hosts EXCEPT ![n] = NoHosts]
                /\ conf' = [conf EXCEPT ![n] = FALSE]
                /\ daemon' = [daemon EXCEPT ![n] = "nopid"]
                /\ log' = [log EXCEPT ![p] = @ \o Logged(p,
                              <<<<"stop", n>>>>
                              \o (IF stopKills(daemon[n])
                                  THEN <<<<"kill", n>>>> ELSE <<>>)
                              \o <<<<"rmdir", n>>>>)]
                /\ st' = [st EXCEPT ![p].pc = "release"]
        /\ UNCHANGED <<lock, pre, nops, ncrash, allOk, cfg, call, died>>

\* cleanUp, other pods remain: removeHostLinesByIP, then dnsNameConf.hup()
CleanHup(p) ==
    /\ st[p].pc = "c_hup"
    /\ \E startOk \in BOOLEAN :
         LET h == Hup(p, st[p].net, startOk)
         IN  /\ daemon' = [daemon EXCEPT ![st[p].net] = h.daemon]
             /\ log' = [log EXCEPT ![p] = @ \o Logged(p, h.events)]
             /\ st' = [st EXCEPT ![p].cerr = h.err, ![p].pc = "release"]
    /\ UNCHANGED <<dirs, own, local, hosts, conf, lock, pre, nops, ncrash,
                   allOk, cfg, call, died>>

\* cmdCheck up to getLock
StartCheck(p) ==
    /\ st[p].pc = "idle"
    /\ nops < MaxOps
    /\ \E net \in Nets :
          st' = [st EXCEPT ![p] =
                    [Idle EXCEPT !.pc = "k_lock", !.op = "check",
                                 !.net = net]]
    /\ nops' = nops + 1
    /\ log' = [log EXCEPT ![p] = <<>>]
    /\ UNCHANGED <<dirs, own, local, hosts, conf, daemon, lock, pre, ncrash,
                   allOk, cfg, call, died>>

\* the names cmdCheck looks for among the entries of the shared root
hostsFileName == "addnhosts"

confFileName == "dnsmasq.conf"

\* cmdCheck under the lock: the daemon must run, and the listing of
\* dnsNameConfPath() (the shared root) must name the hosts and config files
CheckBody(p) ==
    LET n == st[p].net
        conffiles == dirs
        err == IF ~isRunning(n) THEN "notrunning"
               ELSE IF hostsFileName \notin conffiles THEN "nohosts"
               ELSE IF confFileName \notin conffiles THEN "noconf"
               ELSE ""
    IN  /\ st[p].pc = "k_check"
        /\ log' = [log EXCEPT ![p] = @ \o Logged(p,
                      <<<<"probe", n>>>>
                      \o (IF isRunning(n) THEN <<<<"readdir", n>>>>
                          ELSE <<>>))]
        /\ st' = [st EXCEPT ![p].err = err, ![p].pc = "release"]
        /\ UNCHANGED <<dirs, own, local, hosts, conf, daemon, lock, pre,
                       nops, ncrash, allOk, cfg, call, died>>

\* a plausible slip: the deferred function assigns cleanUp's error to the
\* named result of cmdAdd
ResultOfCleanUp(p) ==
    IF st[p].op = "del" \/ st[p].cerr # "" THEN st[p].cerr ELSE st[p].err

\* the error the invocation of p returns to its caller ("" for success):
\* cmdDel returns cleanUp's error; cmdAdd and cmdCheck return their own, the
\* error of the deferred cleanUp being logged only
Result(p) == IF st[p].op = "del" THEN st[p].cerr ELSE st[p].err

\* the deferred lock.release() of cmdAdd, cmdDel and cmdCheck, after which
\* the invocation returns and the process exits
Release(p) ==
    /\ st[p].pc = "release"
    /\ lock' = ReleaseLock(p)
    /\ st' = [st EXCEPT ![p] = Idle]
    /\ log' = [log EXCEPT ![p] = <<>>]
    /\ pre' = [pre EXCEPT ![p] = NoSnap]
    /\ allOk' = (allOk /\ (st[p].op = "check" \/ Result(p) = ""))
    /\ UNCHANGED <<dirs, own, local, hosts, conf, daemon, nops, ncrash, cfg, call, died>>

\* a dnsmasq daemon exits on its own; its pid file stays
Crash(n) ==
    /\ daemon[n] = "running"
    /\ ncrash < MaxCrash
    /\ daemon' = [daemon EXCEPT ![n] = "dead"]
    /\ ncrash' = ncrash + 1
    /\ UNCHANGED <<dirs, own, local, hosts, conf, lock, st, log, pre, nops,
                   allOk, cfg, call, died>>

\* the pid file of a daemon is left with a content that is no decimal pid
Corrupt(n) ==
    /\ daemon[n] \in {"running", "dead"}
    /\ ncrash < MaxCrash
    /\ daemon' = [daemon EXCEPT ![n] = "bad"]
    /\ ncrash' = ncrash + 1
    /\ UNCHANGED <<dirs, own, local, hosts, conf, lock, st, log, pre, nops,
                   allOk, cfg, call, died>>

Step(p) ==
    \/ StartAdd(p) \/ AcquireLock(p) \/ AddPrep(p)
    \/ AddSkipLocal(p) \/ AddLocalBegin(p) \/ AddLocalSibling(p)
    \/ AddLocalFinal(p) \/ AddHup(p)
    \/ StartDel(p) \/ CleanHosts(p) \/ CleanRemoveBegin(p)
    \/ CleanRemoveSibling(p) \/ CleanStop(p) \/ CleanHup(p)
    \/ StartCheck(p) \/ CheckBody(p)
    \/ Release(p)

Next ==
    \/ \E p \in Procs : Step(p)
    \/ \E n \in Nets : Crash(n)
    \/ \E n \in Nets : Corrupt(n)

Spec == Init /\ [][Next]_vars

(***************************************************************************)
(* Properties.                                                             *)
(***************************************************************************)
NoDup(items) == Cardinality(Range(items)) = Len(items)

IsSorted(items) ==
    \A i \in 1..(Len(items) - 1) : ~StrLess(items[i + 1], items[i])

\* the scoped lines of network n under its configuration
OwnLines(n) == Range(serversToServerItems(cfg[n].dom, cfg[n].ips))

\* the siblings p's addLocalServers found
PreSiblings(p) == pre[p].dirs \ {st[p].net}

\* addLocalServers of p has just returned nil
AddLocalReturned(p) == st[p].pc = "a_hup" /\ st[p].alOk

\* when p entered addLocalServers its instance was new, every sibling's
\* own-servers file held its own scoped lines only, for a domain other than
\* p's, and every sibling's local-servers file held exactly the lines of the
\* other siblings' own-servers files
C1Pre(p) ==
    LET n == st[p].net
        S == PreSiblings(p)
    IN  /\ pre[p].taken
        /\ ~pre[p].own[n].ex /\ ~pre[p].local[n].ex
        /\ \A s \in S :
              /\ pre[p].own[s].ex
              /\ Range(pre[p].own[s].lines) = OwnLines(s)
              /\ NoDup(pre[p].own[s].lines)
              /\ cfg[s].dom # st[p].dom
              /\ pre[p].local[s].ex
              /\ NoDup(pre[p].local[s].lines)
              /\ Range(pre[p].local[s].lines) =
                     UNION {Range(pre[p].own[t].lines) : t \in S \ {s}}

C1Post(p) ==
    LET n == st[p].net
        S == PreSiblings(p)
        newLines == Range(serversToServerItems(st[p].dom, st[p].ips))
    IN  /\ \A s \in S :
              /\ local[s].ex
              /\ Range(local[s].lines) =
                     Range(pre[p].local[s].lines) \cup newLines
              /\ NoDup(local[s].lines) /\ IsSorted(local[s].lines)
              /\ own[s] = pre[p].own[s]
        /\ own[n].ex
        /\ Range(own[n].lines) = newLines
        /\ NoDup(own[n].lines) /\ IsSorted(own[n].lines)
        /\ local[n].ex
        /\ Range(local[n].lines) = UNION {Range(own[s].lines) : s \in S}
        /\ NoDup(local[n].lines) /\ IsSorted(local[n].lines)

\* C1: when addLocalServers returns nil for a new instance with a fresh
\* domain, entered with consistent sibling files, every sibling's
\* local-servers file holds its previous lines plus exactly the new
\* instance's scoped lines, every sibling's own-servers file is unchanged,
\* the new instance's own-servers file holds exactly its scoped lines and
\* its local-servers file holds exactly the siblings' own-servers lines.
C1_AddLocalServersContract ==
    \A p \in Procs : (AddLocalReturned(p) /\ C1Pre(p)) => C1Post(p)

\* addLocalServers has returned nil for a new instance with two siblings
C1_Witness ==
    \E p \in Procs :
        /\ AddLocalReturned(p) /\ C1Pre(p)
        /\ Cardinality(PreSiblings(p)) = 2

HasEvent(p, ops, n) ==
    \E i \in 1..Len(log[p]) : log[p][i].op \in ops /\ log[p][i].net = n

\* the events of p's invocation from the start of its cleanUp on
CleanUpEvents(p) ==
    IF \E i \in 1..Len(log[p]) : log[p][i].op = "cleanup"
    THEN LET c == CHOOSE i \in 1..Len(log[p]) : log[p][i].op = "cleanup"
         IN  SubSeq(log[p], c, Len(log[p]))
    ELSE <<>>

\* removeLocalServers, called by the cleanUp of p's failed Add after p's
\* addLocalServers had returned nil, has just returned nil
RemoveAfterAddReturned(p) ==
    /\ st[p].op = "add" /\ st[p].alOk
    /\ st[p].pc = "c_loop" /\ st[p].items = <<>>

NewLines(p) == Range(serversToServerItems(st[p].dom, st[p].ips))

C2Restored(p) ==
    /\ \A s \in PreSiblings(p) :
          /\ local[s].lines = pre[p].local[s].lines
          /\ own[s] = pre[p].own[s]
    /\ \A i \in 1..Len(CleanUpEvents(p)) :
          ~(/\ CleanUpEvents(p)[i].op \in {"write_own", "write_local"}
            /\ CleanUpEvents(p)[i].net = st[p].net)

\* C2 as stated: after a successful addLocalServers of N, a following
\* removeLocalServers of N with the same servers restores every sibling's
\* local-servers lines to those before the add, changes no sibling's
\* own-servers file and writes neither file of N.
C2_RemoveInvertsAdd_Original ==
    \A p \in Procs : RemoveAfterAddReturned(p) => C2Restored(p)

\* C2, amended: the same, for an add before which no sibling's
\* local-servers file held one of N's scoped lines.
C2_RemoveInvertsAdd ==
    \A p \in Procs :
        (/\ RemoveAfterAddReturned(p)
         /\ \A s \in PreSiblings(p) :
               Range(pre[p].local[s].lines) \cap NewLines(p) = {})
        => C2Restored(p)

\* removeLocalServers has undone an add that had appended N's line to the
\* local-servers file of a sibling
C2_Witness ==
    \E p \in Procs :
        /\ RemoveAfterAddReturned(p)
        /\ \E s \in PreSiblings(p) :
              /\ pre[p].local[s].lines # <<>>
              /\ Range(pre[p].local[s].lines) \cap NewLines(p) = {}
              /\ HasEvent(p, {"write_local"}, s)

\* line is scoped to domainName: it reads server=/<domainName>/...
ScopedTo(domainName, line) ==
    LET pfx == ServerPrefix \o <<Slash>> \o domainName \o <<Slash>>
    IN  Len(line) >= Len(pfx) /\ SubSeq(line, 1, Len(pfx)) = pfx

HoldsDomain(domainName, lines) ==
    \E i \in 1..Len(lines) : ScopedTo(domainName, lines[i])

\* C3: addLocalServers does not return nil when a sibling's own-servers
\* file holds a line scoped to the instance's domain; it fails on the first
\* such sibling, and then neither that sibling nor any sibling listed after
\* it had its local-servers file written or its daemon stopped or started.
C3_DomainCollision ==
    \A p \in Procs :
        /\ AddLocalReturned(p) =>
              \A s \in PreSiblings(p) :
                  ~HoldsDomain(st[p].dom, pre[p].own[s].lines)
        /\ (st[p].pc = "c_hosts" /\ st[p].err = "collision") =>
              /\ st[p].items # <<>>
              /\ HoldsDomain(st[p].dom, own[Head(st[p].items)].lines)
              /\ \A s \in Range(st[p].items) :
                    /\ local[s] = pre[p].local[s]
                    /\ ~HasEvent(p, {"write_local", "stop", "start"}, s)

\* addLocalServers has failed on a collision with a sibling that is
\* followed by another sibling
C3_Witness ==
    \E p \in Procs :
        /\ st[p].pc = "c_hosts" /\ st[p].err = "collision"
        /\ Len(st[p].items) >= 2
        /\ HoldsDomain(st[p].dom, own[Head(st[p].items)].lines)

\* where an invocation is while it holds the lock
LockedPcs == {"a_prep", "a_addlocal", "al_loop", "a_hup", "c_hosts",
              "c_rmlocal", "c_loop", "c_hup", "k_check", "release"}

Acquired(p) == Cardinality({i \in 1..Len(log[p]) : log[p][i].op = "acquire"})

\* C5: an invocation holds the lock exactly from its one acquire to its
\* return, whatever path it takes: while it is between the two it holds the
\* lock and has acquired it once, and once it has returned, with or without
\* an error, it holds the lock no more.
C5_LockReleased ==
    \A p \in Procs :
        /\ lock = p <=> st[p].pc \in LockedPcs
        /\ lock = p => Acquired(p) = 1

\* an Add has failed, its cleanUp has failed too, and the invocation is
\* about to release the lock and return
C5_Witness ==
    \E p \in Procs :
        /\ st[p].pc = "release" /\ st[p].op = "add"
        /\ st[p].err # "" /\ st[p].cerr # "" /\ lock = p

\* C10: when an Add that failed under the lock is about to release the
\* lock, its cleanUp has run, the lock is still held, and the error it
\* returns is the failure of the Add, whatever cleanUp returned.
C10_CleanUpBeforeRelease ==
    \A p \in Procs :
        (st[p].op = "add" /\ st[p].pc = "release" /\ st[p].err # "") =>
            /\ lock = p
            /\ CleanUpEvents(p) # <<>>
            /\ \A i \in 1..Len(log[p]) : log[p][i].op # "release"
            /\ Result(p) = st[p].err

\* an Add has failed and its cleanUp has failed with another error
C10_Witness ==
    \E p \in Procs :
        /\ st[p].op = "add" /\ st[p].pc = "release"
        /\ st[p].err # "" /\ st[p].cerr # "" /\ st[p].cerr # st[p].err

\* C4 as stated: every access an invocation makes to the shared root or to
\* a daemon is made while the invocation holds the lock.
C4_AllAccessUnderLock ==
    \A p \in Procs : \A i \in 1..Len(log[p]) : log[p][i].locked

\* an Add has created its instance directory and only then waits for the
\* lock, which another invocation holds
C4_Witness ==
    \E p \in Procs :
        /\ st[p].pc = "a_lock" /\ lock \notin {p, NoProc}
        /\ \E i \in 1..Len(log[p]) :
              log[p][i].op = "mkdir" /\ ~log[p][i].locked

Quiescent == lock = NoProc /\ \A p \in Procs : st[p].pc = "idle"

OwnItemsOf(n) == serversToServerItems(cfg[n].dom, cfg[n].ips)

\* two multi-domain Adds for the different networks a and b have completed
\* and every invocation so far has succeeded
BothAdded(a, b) ==
    /\ Quiescent /\ allOk
    /\ a # b /\ {a, b} \subseteq dirs
    /\ cfg[a].md /\ cfg[b].md /\ cfg[a].dom # cfg[b].dom
    /\ hosts[a].pods # {} /\ hosts[b].pods # {}

\* C6: once two multi-domain Adds for two networks with distinct domains
\* have both completed successfully, in whatever order their steps were
\* interleaved, each network's local-servers file holds the other network's
\* scoped line and each own-servers file holds just the network's own line.
C6_NoLostUpdates ==
    \A a, b \in Nets :
        BothAdded(a, b) =>
            /\ Range(OwnItemsOf(b)) \subseteq Range(local[a].lines)
            /\ own[a].ex /\ own[a].lines = OwnItemsOf(a)

\* both Adds have completed and exactly their two instances exist
C6_Witness ==
    \E a, b \in Nets :
        /\ BothAdded(a, b) /\ dirs = {a, b} /\ nops = 2
        /\ local[a].lines # <<>> /\ local[b].lines # <<>>

AllMultiDomain == \A n \in Nets : cfg[n].md

\* the lines of the own-servers files of the existing instances other than n
OthersOwnLines(n) ==
    UNION {Range(own[m].lines) : m \in dirs \ {n}}

IsScoped(line) ==
    Len(line) > Len(ServerPrefix) /\ line[Len(ServerPrefix) + 1] = Slash

\* C7 as stated: with the lock free after successful multi-domain Adds and
\* Dels, each existing instance's local-servers file holds exactly the lines
\* of the other existing instances' own-servers files.
C7_LocalIsUnionOfOthers_Original ==
    (lock = NoProc /\ allOk /\ AllMultiDomain) =>
        \A n \in dirs :
            own[n].ex => Range(local[n].lines) = OthersOwnLines(n)

\* the unscoped lines of the upstream servers the networks' Adds are given
UpstreamLines ==
    UNION {Range(remoteServersToServerItems(cfg[m].remote)) : m \in Nets}

\* C7, amended: with the lock free after successful multi-domain Adds and
\* Dels, in which a network keeps its domain and addresses, the scoped lines
\* of the local-servers file of each instance that has an own-servers file
\* are exactly the lines of the other existing instances' own-servers
\* files, each once, and every other line of it is an unscoped line for an
\* upstream server that an Add of this or of another instance was given.
C7_LocalIsUnionOfOthers ==
    (lock = NoProc /\ allOk /\ AllMultiDomain) =>
        \A n \in dirs :
            own[n].ex =>
                /\ {l \in Range(local[n].lines) : IsScoped(l)}
                       = OthersOwnLines(n)
                /\ {l \in Range(local[n].lines) : ~IsScoped(l)}
                       \subseteq UpstreamLines
                /\ NoDup(local[n].lines)

\* an instance given an upstream server holds its unscoped line next to the
\* scoped line of a sibling
C7_Witness ==
    /\ lock = NoProc /\ allOk /\ AllMultiDomain
    /\ \E n \in dirs :
          /\ own[n].ex
          /\ \E l \in Range(local[n].lines) : IsScoped(l)
          /\ \E l \in Range(local[n].lines) : ~IsScoped(l)

Doms == {DomX, DomY, DomZ}

\* C9 as stated: whenever the lock is free, no two existing instance
\* directories have own-servers files with a line scoped to the same domain.
C9_OneOwnerPerDomain ==
    lock = NoProc =>
        \A a, b \in dirs : \A d \in Doms :
            (HoldsDomain(d, own[a].lines) /\ HoldsDomain(d, own[b].lines))
                => a = b

\* a failed Add whose cleanUp failed has returned
C9_Witness ==
    /\ Quiescent /\ ~allOk
    /\ \E a, b \in dirs : \E d \in Doms :
          a # b /\ HoldsDomain(d, own[a].lines) /\ HoldsDomain(d, own[b].lines)

\* ---------------------------------------------------------------------
\* addLocalServers run on its own, as the package's tests run it, over
\* server files left behind by earlier invocations
\* ---------------------------------------------------------------------

\* the lines a sibling's file may hold on entry, in the order writeServerItems
\* leaves them: a line of the adder's domain for another address, a line of
\* another domain, an unscoped upstream line
LeftLines == <<ScopedItem(DomX, Ip2), ScopedItem(DomY, Ip2), RemoteItem(Ip9)>>

\* every sorted, duplicate-free file content over LeftLines
LeftContents ==
    {<<>>,
     <<LeftLines[1]>>, <<LeftLines[2]>>, <<LeftLines[3]>>,
     <<LeftLines[1], LeftLines[2]>>, <<LeftLines[1], LeftLines[3]>>,
     <<LeftLines[2], LeftLines[3]>>,
     LeftLines}

LeftFiles == {NoFile} \cup {FileOf(c) : c \in LeftContents}

\* cmdAdd of process 1 for net1 (domain x, address 1) holds the lock and is
\* about to call addLocalServers; net2 (domain y) is a sibling with an
\* own-servers file, net3 a sibling directory with or without files
InitEngine ==
    /\ dirs \in {{"net1", "net2"}, {"net1", "net2", "net3"}}
    /\ cfg = [n \in Nets |-> NetCfg(IF n = "net1" THEN DomX
                                    ELSE IF n = "net2" THEN DomY ELSE DomZ,
                                    IF n = "net2" THEN <<Ip2>> ELSE <<Ip1>>,
                                    TRUE, <<>>)]
    /\ \E o3 \in {NoFile, FileOf(<<ScopedItem(DomZ, Ip1)>>)} :
          own = [n \in Nets |->
                    IF n = "net2" THEN FileOf(<<ScopedItem(DomY, Ip2)>>)
                    ELSE IF n = "net3" /\ n \in dirs THEN o3 ELSE NoFile]
    /\ \E l1 \in {NoFile, FileOf(<<>>)}, l2, l3 \in LeftFiles :
          local = [n \in Nets |->
                      IF n = "net1" THEN l1
                      ELSE IF n = "net2" THEN l2
                      ELSE IF n \in dirs THEN l3 ELSE NoFile]
    /\ hosts = [n \in Nets |-> IF n = "net1"
                               THEN [ex |-> TRUE, pods |-> {PodOf(1)}]
                               ELSE NoHosts]
    /\ conf = [n \in Nets |-> n \in dirs]
    /\ \E d2 \in {"running", "dead"} :
          daemon = [n \in Nets |-> IF n = "net2" THEN d2 ELSE "nopid"]
    /\ lock = 1
    /\ st = [p \in Procs |->
                IF p = 1
                THEN [Idle EXCEPT !.pc = "a_addlocal", !.op = "add",
                                  !.net = "net1", !.dom = DomX,
                                  !.ips = <<Ip1>>, !.md = TRUE]
                ELSE Idle]
    /\ log = [p \in Procs |->
                 IF p = 1 THEN <<[op |-> "acquire", net |-> "net1",
                                  locked |-> TRUE, running |-> FALSE]>>
                 ELSE <<>>]
    /\ pre = [p \in Procs |-> NoSnap]
    /\ nops = 1
    /\ ncrash = 0
    /\ allOk = TRUE
    /\ call = NoCall
    /\ died = {}

NextEngine ==
    \/ AddLocalBegin(1)
    \/ AddLocalSibling(1)
    \/ AddLocalFinal(1)

SpecEngine == InitEngine /\ [][NextEngine]_vars

\* C8 as stated: after addLocalServers returns nil for an instance with
\* domain D, the instance's local-servers file holds no line scoped to D,
\* whatever the siblings' files held before the call.
C8_OwnDomainNotInLocal ==
    \A p \in Procs :
        AddLocalReturned(p) =>
            ~HoldsDomain(st[p].dom, local[st[p].net].lines)

\* addLocalServers has returned nil where a sibling's local-servers file
\* held a line of the instance's domain for another address
C8_Witness ==
    \E p \in Procs :
        /\ AddLocalReturned(p)
        /\ \E s \in PreSiblings(p) :
              HoldsDomain(st[p].dom, pre[p].local[s].lines)

\* p's cleanUp, with no pod left on a multi-domain network, goes from the
\* end of removeLocalServers, or from within it, to its return
TeardownReturns(p) ==
    /\ st[p].md
    /\ st[p].pc = "c_loop"
    /\ st'[p].pc = "release"

\* C11: when the cleanUp of a Del or of a failed Add has removed the last
\* pod of a multi-domain network and returns nil, no sibling's
\* local-servers file holds a scoped line of the instance, the daemon was
\* sent the kill signal if its pid file held a pid, and the instance
\* directory is gone; when the removal from a sibling fails, or the pid file
\* cannot be read so that stop fails, the directory is not removed.
C11_Teardown ==
    [][\A p \in Procs :
          TeardownReturns(p) =>
              LET n == st[p].net
              IN  /\ st'[p].cerr = "" =>
                        /\ \A s \in dirs' \ {n} :
                              Range(local'[s].lines) \cap NewLines(p) = {}
                        /\ stopKills(daemon[n]) => HasEvent(p, {"kill"}, n)'
                        /\ n \notin dirs'
                  /\ (st'[p].cerr # "" \/ daemon[n] = "bad") =>
                        /\ st'[p].cerr # ""
                        /\ dirs' = dirs]_vars

\* a Del has removed the instance's line from a sibling, killed the daemon
\* and removed the directory
C11_Witness ==
    \E p \in Procs :
        /\ st[p].pc = "release" /\ st[p].op = "del" /\ st[p].cerr = ""
        /\ st[p].md
        /\ HasEvent(p, {"kill"}, st[p].net)
        /\ HasEvent(p, {"rmdir"}, st[p].net)
        /\ st[p].net \notin dirs
        /\ \E s \in dirs : HasEvent(p, {"write_local"}, s)

\* C12 as stated: Check returns nil exactly when the instance's daemon runs
\* and the instance's directory holds its config file and its hosts file.
C12_CheckIff ==
    [][\A p \in Procs :
          (st[p].pc = "k_check" /\ st'[p].pc = "release") =>
              LET n == st[p].net
              IN  st'[p].err = "" <=>
                      (daemon[n] = "running" /\ conf[n] /\ hosts[n].ex)]_vars

\* Check has returned an error for an instance whose daemon runs and whose
\* directory holds both files
C12_Witness ==
    \E p \in Procs :
        /\ st[p].op = "check" /\ st[p].pc = "release" /\ st[p].err # ""
        /\ daemon[st[p].net] = "running"
        /\ conf[st[p].net] /\ hosts[st[p].net].ex

\* ---------------------------------------------------------------------
\* The functions of the daemon supervisor called on their own on the
\* instance net1, whatever its pid file holds
\* ---------------------------------------------------------------------

\* calls made in a row
MaxCalls == 3

PidStates == {"nopid", "running", "dead", "bad"}

InitService ==
    /\ dirs = {"net1"}
    /\ own = [n \in Nets |-> NoFile]
    /\ local = [n \in Nets |-> NoFile]
    /\ hosts = [n \in Nets |-> NoHosts]
    /\ conf = [n \in Nets |-> n = "net1"]
    /\ \E d \in PidStates :
          daemon = [n \in Nets |-> IF n = "net1" THEN d ELSE "nopid"]
    /\ lock = NoProc
    /\ st = [p \in Procs |-> Idle]
    /\ log = [p \in Procs |-> <<>>]
    /\ pre = [p \in Procs |-> NoSnap]
    /\ nops = 0
    /\ ncrash = 0
    /\ allOk = TRUE
    /\ cfg = [n \in Nets |-> NetCfg(DomX, <<Ip1>>, TRUE, <<>>)]
    /\ call = [fn |-> "service", trace |-> <<>>]
    /\ died = {}

\* one call on net1 is recorded: the function, the pid file before, the
\* error and the boolean returned, the pid file after
Called(fn, err, result) ==
    /\ call.fn = "service"
    /\ Len(call.trace) < MaxCalls
    /\ call' = [call EXCEPT !.trace =
                   Append(@, [fn |-> fn, before |-> daemon["net1"],
                              err |-> err, result |-> result,
                              after |-> daemon'["net1"]])]
    /\ UNCHANGED <<dirs, own, local, hosts, conf, lock, st, log, pre, nops,
                   ncrash, allOk, cfg, died>>

CallStop ==
    /\ daemon' = IF stopFails(daemon["net1"]) THEN daemon
                 ELSE [daemon EXCEPT !["net1"] = stop(@)]
    /\ Called("stop", stopFails(daemon["net1"]), FALSE)

CallIsRunning ==
    /\ daemon' = daemon
    /\ Called("isRunning", FALSE, isRunning("net1"))

CallStart ==
    \E startOk \in BOOLEAN :
        /\ daemon' = [daemon EXCEPT !["net1"] = start(@, startOk)]
        /\ Called("start", ~startOk, FALSE)

NextService ==
    \/ CallStop
    \/ CallIsRunning
    \/ CallStart
    \/ Crash("net1")
    \/ Corrupt("net1")

SpecService == InitService /\ [][NextService]_vars

\* the files of the shared root other than pid files are as InitService
\* left them
NoFileChanged ==
    /\ dirs = {"net1"}
    /\ \A n \in Nets : ~own[n].ex /\ ~local[n].ex /\ ~hosts[n].ex
    /\ \A n \in Nets : conf[n] <=> n = "net1"

\* C13: stop() returns nil and leaves the pid file and every other file as
\* they are when the pid file is absent and when it names a process that has
\* exited, and a stop() that follows a stop() that returned nil, the pid
\* file being as that one left it, returns nil.
C13_StopIdempotent ==
    /\ NoFileChanged
    /\ \A i \in 1..Len(call.trace) :
          LET c == call.trace[i]
          IN  c.fn = "stop" =>
                  /\ c.before \in {"nopid", "dead"} =>
                        (~c.err /\ c.after = c.before)
                  /\ (i > 1 /\ call.trace[i - 1].fn = "stop"
                            /\ ~call.trace[i - 1].err
                            /\ call.trace[i - 1].after = c.before) => ~c.err

\* stop() was called on a running daemon and then again
C13_Witness ==
    /\ Len(call.trace) >= 2
    /\ call.trace[1].fn = "stop" /\ call.trace[1].before = "running"
    /\ call.trace[2].fn = "stop" /\ call.trace[2].before = "dead"
    /\ ~call.trace[2].err

\* C14: isRunning returns true exactly when the pid file holds the pid of a
\* live process, so false for a missing pid file, for the pid of a dead
\* process and for a content that is no decimal pid; it returns no error
\* and changes nothing.
C14_IsRunning ==
    /\ NoFileChanged
    /\ \A i \in 1..Len(call.trace) :
          LET c == call.trace[i]
          IN  c.fn = "isRunning" =>
                  /\ c.result <=> c.before = "running"
                  /\ ~c.err
                  /\ c.after = c.before

\* isRunning was called on a pid file that holds no decimal pid, and on a
\* running daemon
C14_Witness ==
    /\ \E i \in 1..Len(call.trace) :
          call.trace[i].fn = "isRunning" /\ call.trace[i].before = "bad"
          /\ ~call.trace[i].result
    /\ \E i \in 1..Len(call.trace) :
          call.trace[i].fn = "isRunning" /\ call.trace[i].result

\* ---------------------------------------------------------------------
\* The functions on server lines called on their own, on every argument
\* up to a length
\* ---------------------------------------------------------------------

\* longest slice of lines passed
MaxLen == 3

\* longest list of remote servers passed
MaxRemote == 2

SeqsUpTo(S, n) == UNION {[1..k -> S] : k \in 0..n}

\* the lines passed: two scoped lines and an unscoped one
ArgLines == {ScopedItem(DomX, Ip1), ScopedItem(DomY, Ip2), RemoteItem(Ip9)}

\* net1 is an instance with a running daemon; its local-servers file holds
\* the lines x, or is absent; net2 is a sibling
InitFunctions ==
    /\ \E x, y \in SeqsUpTo(ArgLines, MaxLen),
          r \in SeqsUpTo({Ip1, Ip9}, MaxRemote), ex \in BOOLEAN :
          /\ ~ex => x = <<>>
          /\ call = [fn |-> "args", x |-> x, y |-> y, r |-> r, ex |-> ex]
          /\ local = [n \in Nets |-> IF n = "net1" /\ ex THEN FileOf(x)
                                     ELSE NoFile]
    /\ dirs = {"net1", "net2"}
    /\ own = [n \in Nets |-> NoFile]
    /\ hosts = [n \in Nets |-> NoHosts]
    /\ conf = [n \in Nets |-> n \in dirs]
    /\ died = {}
    /\ daemon = [n \in Nets |-> IF n \in dirs THEN "running" ELSE "nopid"]
    /\ lock = NoProc
    /\ st = [p \in Procs |-> Idle]
    /\ log = [p \in Procs |-> <<>>]
    /\ pre = [p \in Procs |-> NoSnap]
    /\ nops = 0
    /\ ncrash = 0
    /\ allOk = TRUE
    /\ cfg = [n \in Nets |-> NetCfg(DomX, <<Ip1>>, TRUE, <<>>)]

\* what a call on lines leaves untouched
OnlyCall ==
    UNCHANGED <<dirs, own, local, hosts, conf, daemon, lock, st, log, pre,
                nops, ncrash, allOk, cfg, died>>

\* mergeServerItems(x, y), and once more with the result and y
CallMerge ==
    /\ call.fn = "args"
    /\ LET m  == mergeServerItems(call.x, call.y)
           m2 == mergeServerItems(m.items, call.y)
       IN  call' = [fn |-> "merge", x |-> call.x, y |-> call.y,
                    out |-> m.items, changed |-> m.modified,
                    out2 |-> m2.items, changed2 |-> m2.modified]
    /\ OnlyCall

\* removeServerItems(x, y)
CallRemove ==
    /\ call.fn = "args"
    /\ LET m == removeServerItems(call.x, call.y)
       IN  call' = [fn |-> "remove", x |-> call.x, y |-> call.y,
                    out |-> m.items, changed |-> m.modified]
    /\ OnlyCall

\* writeServerItems(path, x), then readServerItems(path)
CallWriteRead ==
    /\ call.fn = "args"
    /\ LET w == writeServerItems(TRUE, call.x)
       IN  call' = [fn |-> "writeread", x |-> call.x, bytes |-> w.bytes,
                    out |-> readServerItems(w.file).items]
    /\ OnlyCall

\* addRemoteServers(local-servers file of net1, r), and the same call again
CallAddRemote ==
    /\ call.fn \in {"args", "addRemote"}
    /\ LET a == addRemoteServers(TRUE, TRUE, local["net1"], call.r)
       IN  /\ call' = [fn |-> IF call.fn = "args" THEN "addRemote"
                              ELSE "addRemote2",
                       x |-> call.x, r |-> call.r, ex |-> call.ex,
                       before |-> local["net1"],
                       err |-> a.err, wrote |-> a.wrote]
           /\ local' = [local EXCEPT !["net1"] = a.file]
    /\ UNCHANGED <<dirs, own, hosts, conf, daemon, lock, st, log, pre,
                   nops, ncrash, allOk, cfg, died>>

NextFunctions ==
    \/ CallMerge
    \/ CallRemove
    \/ CallWriteRead
    \/ CallAddRemote

SpecFunctions == InitFunctions /\ [][NextFunctions]_vars

RECURSIVE PickFrom(_, _, _)
\* the entries of seq at the indices of keep that are at least i, in order
PickFrom(seq, keep, i) ==
    IF i > Len(seq) THEN <<>>
    ELSE (IF i \in keep THEN <<seq[i]>> ELSE <<>>) \o PickFrom(seq, keep, i + 1)

\* how often l occurs in seq before index i
CountBefore(seq, l, i) == Cardinality({j \in 1..(i - 1) : seq[j] = l})

\* C15: mergeServerItems(X, Y) returns X followed by each line of Y that is
\* not in X, once, in the order of Y, so it holds every line of X and of Y;
\* changed says whether a line was appended; merging X into X changes
\* nothing, and neither does merging Y into the result once more.
C15_Merge ==
    call.fn = "merge" =>
        LET x == call.x
            y == call.y
            new == {i \in 1..Len(y) :
                       y[i] \notin Range(x) /\ CountBefore(y, y[i], i) = 0}
        IN  /\ call.out = x \o PickFrom(y, new, 1)
            /\ Range(call.out) = Range(x) \cup Range(y)
            /\ call.changed <=> new # {}
            /\ y = x => (call.out = x /\ ~call.changed)
            /\ call.out2 = call.out /\ ~call.changed2

\* lines were merged of which one was present, one new and one given twice
C15_Witness ==
    /\ call.fn = "merge" /\ call.changed
    /\ Len(call.out) < Len(call.x) + Len(call.y)
    /\ \E i \in 1..Len(call.y) : call.y[i] \in Range(call.x)
    /\ \E i, j \in 1..Len(call.y) :
          i # j /\ call.y[i] = call.y[j] /\ call.y[i] \notin Range(call.x)

\* C16: removeServerItems(current, toRemove) deletes for each entry of
\* toRemove the first copy of it that current still holds, keeps every other
\* line, later copies too, in its place, and changed says whether a line was
\* deleted.
C16_Remove ==
    call.fn = "remove" =>
        LET x == call.x
            y == call.y
            kept == {i \in 1..Len(x) :
                        CountBefore(x, x[i], i)
                            >= CountBefore(y, x[i], Len(y) + 1)}
        IN  /\ call.out = PickFrom(x, kept, 1)
            /\ call.changed <=> Len(call.out) < Len(x)

\* a line that current holds twice was removed once
C16_Witness ==
    /\ call.fn = "remove" /\ call.changed
    /\ \E l \in Range(call.y) :
          /\ CountBefore(call.x, l, Len(call.x) + 1) = 2
          /\ CountBefore(call.y, l, Len(call.y) + 1) = 1
          /\ l \in Range(call.out)

\* C17: readServerItems after writeServerItems on the same path returns the
\* lines written, as many and the same; the file holds them sorted, one
\* line for each entry.
C17_WriteReadRoundTrip ==
    call.fn = "writeread" =>
        /\ Range(call.out) = Range(call.x)
        /\ Len(call.out) = Len(call.x)
        /\ \A l \in Range(call.x) :
              CountBefore(call.out, l, Len(call.out) + 1)
                  = CountBefore(call.x, l, Len(call.x) + 1)
        /\ IsSorted(call.out)
        /\ Cardinality({i \in 1..Len(call.bytes) : call.bytes[i] = Newline})
               = Len(call.x)
        /\ call.x # <<>> => call.bytes[Len(call.bytes)] = Newline

\* three lines were written out of order and read back
C17_Witness ==
    /\ call.fn = "writeread"
    /\ Len(call.x) = 3 /\ ~IsSorted(call.x)
    /\ call.out # call.x

\* the unscoped lines of the remote servers r
RemoteLines(r) == {ServerPrefix \o r[i] : i \in 1..Len(r)}

\* C18: addRemoteServers(file, R) leaves in the file its earlier lines and
\* one line server=<ip> for each ip of R that it did not hold, sorted when
\* it was written; it changes no other file and no daemon; when the file
\* held every such line it is not written, so the same call once more
\* writes nothing.
C18_AddRemoteServers ==
    call.fn \in {"addRemote", "addRemote2"} =>
        LET prev == call.before.lines
            new  == RemoteLines(call.r) \ Range(prev)
            now  == local["net1"]
        IN  /\ call.err = ""
            /\ Range(now.lines) = Range(prev) \cup RemoteLines(call.r)
            /\ Len(now.lines) = Len(prev) + Cardinality(new)
            /\ call.wrote <=> new # {}
            /\ call.wrote => (now.ex /\ IsSorted(now.lines))
            /\ ~call.wrote => now = call.before
            /\ call.fn = "addRemote2" => ~call.wrote
            /\ \A n \in Nets \ {"net1"} : local[n] = NoFile
            /\ \A n \in Nets : own[n] = NoFile
            /\ \A n \in Nets : daemon[n] = IF n \in dirs THEN "running"
                                           ELSE "nopid"

\* remote servers, one of them twice, were added to a file that held one of
\* their lines and a scoped line
C18_Witness ==
    /\ call.fn = "addRemote" /\ call.wrote
    /\ Len(call.r) = 2
    /\ \E l \in Range(call.before.lines) : l \in RemoteLines(call.r)
    /\ \E l \in Range(call.before.lines) : IsScoped(l)

\* the indices of p's log after i at which op was done to network n
After(p, i, op, n) ==
    {j \in (i + 1)..Len(log[p]) : log[p][j].op = op /\ log[p][j].net = n}

\* p's invocation restarted the daemon of n after index i of its log: a stop
\* and a start after it
RestartedAfter(p, i, n) ==
    \E j \in After(p, i, "stop", n) : After(p, j, "start", n) # {}

\* the indices of p's log at which a forwarder file of an instance with a
\* running daemon was written with changed lines
WritesToRunning(p) ==
    {i \in 1..Len(log[p]) :
        /\ log[p][i].op \in {"write_local", "write_own"}
        /\ log[p][i].running}

\* C19: when an invocation returns, every write of changed lines to the
\* local-servers or own-servers file of an instance whose daemon was running
\* has been followed, in that invocation, by a stop and then a start of that
\* daemon; SIGHUP alone is not what follows such a write.
C19_RestartAfterChange ==
    \A p \in Procs :
        st[p].pc = "release" =>
            \A i \in WritesToRunning(p) : RestartedAfter(p, i, log[p][i].net)

\* an Add that succeeded wrote remote servers to the local-servers file of
\* its instance, whose daemon was running, and sent it SIGHUP
C19_Witness ==
    \E p \in Procs :
        /\ st[p].pc = "release" /\ st[p].op = "add" /\ st[p].err = ""
        /\ \E i \in WritesToRunning(p) :
              /\ log[p][i].net = st[p].net
              /\ After(p, i, "sighup", st[p].net) # {}
              /\ ~RestartedAfter(p, i, st[p].net)

\* the steps p takes in the loops of addLocalServers and removeLocalServers
InPropagation(p) == st[p].pc \in {"al_loop", "c_loop"} /\ log'[p] # log[p]

\* the events that p's step adds to its log
NewEvents(p) == SubSeq(log'[p], Len(log[p]) + 1, Len(log'[p]))

\* the indices of events at which op was done to network n
At(events, op, n) ==
    {i \in 1..Len(events) : events[i].op = op /\ events[i].net = n}

C22_AbsentFileIsEmpty ==
    [][\A p \in Procs :
          ( /\ st[p].pc = "c_loop" /\ st[p].items # <<>>
            /\ log'[p] # log[p]
            /\ ~local[Head(st[p].items)].ex ) =>
              /\ st'[p].cerr = ""
              /\ st'[p].pc = "c_loop"
              /\ st'[p].items = Tail(st[p].items)
              /\ local' = local /\ daemon' = daemon
      ]_vars

\* the Del of the last container of a network returned an error because a
\* sibling directory, made by an Add that waits for the lock, held no
\* local-servers file; the instance directory and its daemon are still there
C22_Witness ==
    \E p \in Procs : \E q \in Procs \ {p} :
        /\ st[p].op = "del" /\ st[p].pc = "release"
        /\ st[p].cerr = "notexist"
        /\ st[q].op = "add" /\ st[q].pc = "a_lock"
        /\ st[q].net \in dirs /\ ~local[st[q].net].ex
        /\ st[p].net \in dirs /\ daemon[st[p].net] = "running"
        /\ hosts[st[p].net].pods = {}

\* ---------------------------------------------------------------------
\* Invocations that may die: the process of an Add exits inside
\* addLocalServers, without its deferred cleanUp
\* ---------------------------------------------------------------------

\* deaths of a process in a behaviour
MaxDeaths == 1

\* the process of p's Add dies between two writes of addLocalServers: the
\* own-servers file is written, the siblings reached so far are, the
\* instance's local-servers file is not; the deferred functions do not run,
\* the operating system drops the lock
Die(p) ==
    /\ st[p].op = "add" /\ st[p].pc = "al_loop"
    /\ Cardinality(died) < MaxDeaths
    /\ died' = died \cup {st[p].net}
    /\ st' = [st EXCEPT ![p] = Idle]
    /\ lock' = NoProc
    /\ log' = [log EXCEPT ![p] = <<>>]
    /\ pre' = [pre EXCEPT ![p] = NoSnap]
    /\ allOk' = FALSE
    /\ UNCHANGED <<dirs, own, local, hosts, conf, daemon, nops, ncrash, cfg,
                   call>>

NextRetry ==
    \/ Next
    \/ \E p \in Procs : Die(p)

SpecRetry == Init /\ [][NextRetry]_vars

\* an Add of p for a network whose earlier Add died in addLocalServers has
\* run addLocalServers to its end and is about to return success
RetryReturns(p) ==
    /\ st[p].op = "add" /\ st[p].net \in died
    /\ st[p].pc = "release" /\ st[p].err = "" /\ st[p].alOk

\* C23: when an Add returns success for a network whose earlier Add died
\* inside addLocalServers, every sibling's local-servers file holds the
\* instance's scoped lines, the instance's local-servers file holds every
\* sibling's own-servers lines, and no file holds a line twice.
C23_RetryHeals ==
    \A p \in Procs :
        RetryReturns(p) =>
            LET n == st[p].net
                S == PreSiblings(p)
            IN  /\ \A s \in S :
                      /\ local[s].ex
                      /\ NewLines(p) \subseteq Range(local[s].lines)
                      /\ Range(own[s].lines) \subseteq Range(local[n].lines)
                      /\ NoDup(local[s].lines) /\ NoDup(own[s].lines)
                /\ own[n].ex /\ Range(own[n].lines) = NewLines(p)
                /\ local[n].ex
                /\ NoDup(local[n].lines) /\ NoDup(own[n].lines)

\* the Add that died had left its own-servers file and a sibling that held
\* its line; the retry found both and returned success
C23_Witness ==
    \E p \in Procs :
        /\ RetryReturns(p)
        /\ pre[p].own[st[p].net].ex
        /\ \E s \in PreSiblings(p) :
              /\ NewLines(p) \subseteq Range(pre[p].local[s].lines)
              /\ own[s].ex

\* C24: after addLocalServers returns nil, the instance's local-servers
\* file holds every line that a sibling's local-servers file held when the
\* call began, except the instance's own new lines.
C24_NoSiblingLineDropped ==
    \A p \in Procs :
        AddLocalReturned(p) =>
            \A s \in PreSiblings(p) :
                Range(pre[p].local[s].lines) \ NewLines(p)
                    \subseteq Range(local[st[p].net].lines)

\* addLocalServers has returned nil and a line that a sibling's
\* local-servers file held before the call, and still holds, is not in the
\* instance's local-servers file
C24_Witness ==
    \E p \in Procs :
        /\ AddLocalReturned(p)
        /\ \E s \in PreSiblings(p) :
              \E l \in Range(pre[p].local[s].lines) \ NewLines(p) :
                  /\ l \in Range(local[s].lines)
                  /\ l \notin Range(local[st[p].net].lines)

\* the first Add of p's network has failed with a domain collision in
\* addLocalServers, its cleanUp has returned nil and it is about to return
CollisionUnwound(p) ==
    /\ st[p].op = "add" /\ st[p].pc = "release"
    /\ st[p].err = "collision" /\ st[p].cerr = ""
    /\ pre[p].taken /\ ~pre[p].own[st[p].net].ex

\* C25: when the first Add of a network returns after a domain collision and
\* its cleanUp, every sibling's local-servers file holds the set of lines it
\* held when addLocalServers began, and the instance's directory and
\* own-servers file are gone.
C25_CollisionCleanup ==
    \A p \in Procs :
        CollisionUnwound(p) =>
            /\ \A s \in PreSiblings(p) :
                  Range(local[s].lines) = Range(pre[p].local[s].lines)
            /\ st[p].net \notin dirs
            /\ ~own[st[p].net].ex

\* the failing instance had the address of the domain's owner: a sibling
\* that held the owner's line before the Add has lost it, while the owner's
\* own-servers file still holds it
C25_Witness ==
    \E p \in Procs :
        /\ CollisionUnwound(p)
        /\ st[p].net \notin dirs
        /\ \E s \in PreSiblings(p) : \E o \in PreSiblings(p) \ {s} :
              \E l \in NewLines(p) :
                  /\ l \in Range(own[o].lines)
                  /\ l \in Range(pre[p].local[s].lines)
                  /\ l \notin Range(local[s].lines)

\* C26: whenever the daemon of an instance is not running (no pid file, a
\* pid file that holds no decimal pid, or the pid of a process that is
\* gone), the stop() of cleanUp's teardown returns nil and the step removes
\* the instance directory.
C26_StopAgreesWithIsRunning ==
    [][\A p \in Procs :
          ( /\ st[p].pc = "c_loop" /\ st[p].items = <<>>
            /\ log'[p] # log[p]
            /\ daemon[st[p].net] # "running" ) =>
              /\ st'[p].cerr = ""
              /\ st[p].net \notin dirs'
      ]_vars

\* the teardown of an instance whose pid file holds no decimal pid returned
\* the error of stop() and left the instance directory
C26_Witness ==
    \E p \in Procs :
        /\ st[p].pc = "release" /\ st[p].cerr = "stop"
        /\ daemon[st[p].net] = "bad"
        /\ st[p].net \in dirs
        /\ hosts[st[p].net].pods = {}
====
